---- MODULE Spec2Model ----
(***************************************************************************)
(* Automation input preparers (wandb/sdk/automations/_utils.py) and the    *)
(* paginated automation listings (wandb/apis/public/automations.py).       *)
(***************************************************************************)
EXTENDS Integers, Sequences, FiniteSets, TLC

VARIABLES
    obj,        \* the automation object the caller holds and passes in
    op,         \* the operation of the last call ("none" before any call)
    updates,    \* the keyword overrides of the last call
    result,     \* what the last call returned or raised
    mode,           \* which listing: "by_entity" (AutomationsByEntity) or "for_viewer" (AutomationsForViewer)
    last_response,  \* the paginator's last_response: Null (None) or the last page stored
    received,       \* the pageInfo of every well-formed page the client returned, oldest first
    fetch_error,    \* what the last _update_response call raised (None when it returned)
    fetches,        \* the number of _update_response calls made
    last_shape,     \* the shape of the response the last _update_response call received ("none" before any)
    converted,      \* the last convert_objects call: its outcome, the edges it read, the list it returned
    total_projects,     \* the number of projects the entity's automations span
    per_project,        \* the number of automations in each of these projects
    per_page,           \* the page size the listing was asked for
    requests,           \* every request the client executed for the listing, oldest first
    list_pc,            \* where the listing is: "idle", "start", "iterating", "done"
    objects,            \* the automations the iteration has yielded so far
    store,      \* the backend's automations of the entity, by name
    first_created,    \* per stored name: what the create call that stored it returned, and the description it was given
    next_id,    \* the number of the next identity the backend hands out
    api_call,   \* the last call on the Api: its arguments and what it returned or raised
    serialized,             \* whether the callers of the handle hold a lock of their own around each request
    service_connection,     \* ServiceApi._service_connection: None or the connection
    api_id,                 \* ServiceApi._api_id
    pc,                     \* per thread: where it is in send_api_request / send_api_request_async
    locals,                 \* per thread: the local variables of its call
    ensure_calls,           \* the number of ensure_service() calls made
    init_calls,             \* the number of api_init_request calls made
    init_ids,               \* the ids the api_init_request calls returned, oldest first
    finalizers,             \* the (connection, api_id) pairs registered with weakref.finalize
    sent,                   \* the requests handed to the connection, oldest first
    cleanups,               \* the ids of the api_cleanup_request calls made
    dropped,                \* "no" while the handle is alive, then how its finalization went
    sends_started,          \* the number of requests started on the handle
    wait_timeout,   \* the timeout wait_until_healthy was given, in seconds
    clock,          \* time.monotonic(), in ticks
    start_time,     \* start_time of the running _wait_for_http_200 call, in ticks
    wait_url,       \* the health URL being waited for: "ready", then "health"
    wait_pc,        \* where the call is: "get", "sleep", or how it ended ("returned", "TimeoutError")
    attempts,       \* the number of GETs the running call has made
    last_answer,    \* the answer to the last GET and the time it came
    state_file,         \* the persisted state file: server name -> server info
    containers,         \* the names of the containers this script started that have not been removed
    lock,               \* the holder of the state file's lock (None when free)
    spc,                \* per process: where its command is ("idle", "lock", "read", "body", "write", "exit")
    cmd,                \* per process: the command it runs
    pending,            \* per process: what its command has read, decided and done so far
    commands_started,   \* the number of commands started
    runs,           \* the runs created so far, in creation order: for each, whether it is finished
    wandb_run,      \* the global wandb.run: the number of a run, or NoRun
    last_call       \* the last wandb.init or finish call: its argument and what it returned

prepVars == <<obj, op, updates, result>>
pageVars == <<mode, last_response, received, fetch_error, fetches, last_shape, converted>>
listVars == <<total_projects, per_project, per_page, requests, list_pc, objects>>
storeVars == <<store, first_created, next_id, api_call>>
waitVars == <<wait_timeout, clock, start_time, wait_url, wait_pc, attempts, last_answer>>
runVars == <<runs, wandb_run, last_call>>
srvVars == <<state_file, containers, lock, spc, cmd, pending, commands_started>>
svcVars == <<serialized, service_connection, api_id, pc, locals, ensure_calls, init_calls, init_ids, finalizers, sent, cleanups, dropped, sends_started>>

\* What each component's calls leave alone.
notPrepVars == <<pageVars, listVars, storeVars, svcVars, waitVars, srvVars, runVars>>
notPageVars == <<prepVars, listVars, storeVars, svcVars, waitVars, srvVars, runVars>>
notListVars == <<prepVars, storeVars, svcVars, waitVars, srvVars, runVars>>
notStoreVars == <<prepVars, pageVars, listVars, svcVars, waitVars, srvVars, runVars>>
notSvcVars == <<prepVars, pageVars, listVars, storeVars, waitVars, srvVars, runVars>>
notWaitVars == <<prepVars, pageVars, listVars, storeVars, svcVars, srvVars, runVars>>
notSrvVars == <<prepVars, pageVars, listVars, storeVars, svcVars, waitVars, runVars>>
notRunVars == <<prepVars, pageVars, listVars, storeVars, svcVars, waitVars, srvVars>>

(***************************************************************************)
(* Values                                                                  *)
(***************************************************************************)

\* Python's None, for string-valued fields and for object-valued fields.
None == "None"
Null == [null |-> TRUE]

\* Scopes: a scope_type discriminant, an opaque backend id, a display name.
ProjectScope(i, n) == [scope_type |-> "PROJECT", id |-> i, name |-> n]
ArtifactCollectionScope(i, n) == [scope_type |-> "ARTIFACT_COLLECTION", id |-> i, name |-> n]
P1 == ProjectScope("p1", "proj1")
P2 == ProjectScope("p2", "proj2")
AC1 == ArtifactCollectionScope("ac1", "coll1")
Scopes == {P1, P2, AC1}

\* Filter expressions (the write shape) and the wrapped filter (the read shape).
Leaf(f) == [tag |-> "leaf", field |-> f]
And(s) == [tag |-> "and", inner |-> s]
Or(s) == [tag |-> "or", inner |-> s]
WrappedEventFilter(e) == [tag |-> "wrapped", filter |-> e]
E1 == And(<<Leaf("a")>>)
E2 == Or(<<And(<<Leaf("b")>>)>>)
FilterExprs == {E1, E2}
WrappedFilters == {WrappedEventFilter(e) : e \in FilterExprs}

EventTypes == {"CREATE_ARTIFACT", "RUN_METRIC"}
Event(t, s, f) == [event_type |-> t, scope |-> s, filter |-> f]

\* ActionType; QUEUE_JOB is a member of the enum that the key table leaves out.
KnownActionTypes == {"NOTIFICATION", "GENERIC_WEBHOOK", "NO_OP"}
ActionTypes == KnownActionTypes \cup {"QUEUE_JOB"}
Notification(form, m) == [action_type |-> "NOTIFICATION", form |-> form, message |-> m, severity |-> "INFO"]
Webhook(form, p) == [action_type |-> "GENERIC_WEBHOOK", form |-> form, integration |-> "wh1", request_payload |-> p]
NoOp(form) == [action_type |-> "NO_OP", form |-> form]
QueueJob(form) == [action_type |-> "QUEUE_JOB", form |-> form, queue |-> "q1"]
\* The actions of a form; a queue-job action exists only as a saved one (no input type is exposed for it).
ActionsOf(form) == {Notification(form, "m1"), Notification(form, "m2"), Webhook(form, "{}"), NoOp(form)} \cup (IF form = "saved" THEN {QueueJob(form)} ELSE {})

Automation(i, n, d, e, ev, a) == [id |-> i, name |-> n, description |-> d, enabled |-> e, scope |-> ev.scope, event |-> ev, action |-> a]

\* Saved automations, as decoded from a read: an identity, a wrapped filter, saved actions.
SavedAutomations == {Automation("id1", n, d, e, Event(t, s, f), a) : n \in {"n1"}, d \in {None, "d1"}, e \in BOOLEAN, t \in EventTypes, s \in {P1, AC1}, f \in WrappedFilters, a \in ActionsOf("saved")}

\* Unsaved automations, built as `event >> action`: no identity, the scope of the event.
NewAutomations == {Automation(None, n, None, e, Event(t, s, f), a) : n \in {None, "n1"}, e \in BOOLEAN, t \in EventTypes, s \in {P1, AC1}, f \in FilterExprs, a \in ActionsOf("input")}

Automations == SavedAutomations \cup NewAutomations

\* AutomationParams: the keys an override set may hold, and the values tried for each.
ParamKeys == {"name", "description", "enabled", "scope", "event", "action"}
OverrideValues == [name : {"n2"}, description : {"d2"}, enabled : BOOLEAN, scope : {P2, AC1}, event : {Event("RUN_METRIC", P1, E2), Event("CREATE_ARTIFACT", AC1, WrappedEventFilter(E1))}, action : {Notification("input", "m2"), NoOp("input"), Webhook("input", "{k}")}]
MaxStructuralOverrides == 1
OverrideKeySets == {D \in SUBSET ParamKeys : Cardinality(D \cap {"scope", "event", "action"}) <= MaxStructuralOverrides}
UpdateSets == UNION {{[k \in D |-> full[k]] : full \in OverrideValues} : D \in OverrideKeySets}

(***************************************************************************)
(* Results of a call                                                       *)
(***************************************************************************)
Ok(p) == [status |-> "ok", error |-> None, origin |-> None, payload |-> p, returned |-> Null]
Raise(e) == [status |-> "error", error |-> e, origin |-> "local", payload |-> Null, returned |-> Null]
NoResult == [status |-> "none", error |-> None, origin |-> None, payload |-> Null, returned |-> Null]

(***************************************************************************)
(* The preparers                                                           *)
(***************************************************************************)

\* (mutant: two entries of the table exchanged)
ACTION_CONFIG_KEYS_swapped == [NOTIFICATION |-> "generic_webhook_action_input", GENERIC_WEBHOOK |-> "notification_action_input", NO_OP |-> "no_op_action_input"]
\* _ACTION_CONFIG_KEYS: action type -> field of the action-config wrapper.
ACTION_CONFIG_KEYS == [NOTIFICATION |-> "notification_action_input", GENERIC_WEBHOOK |-> "generic_webhook_action_input", NO_OP |-> "no_op_action_input"]

ConfigFields == {"notification_action_input", "generic_webhook_action_input", "no_op_action_input"}

\* The validators of DoNotification / DoWebhook / DoNothing: a saved action type
\* is converted to the input action type, an input action is kept.
ToInputAction(a) == [a EXCEPT !.form = "input"]

\* InputActionConfig.model_validate({key: obj}): the three fields default to None.
InputActionConfig(key, a) == [f \in ConfigFields |-> IF f = key THEN ToInputAction(a) ELSE Null]

\* prepare_action_input: the table lookup raises KeyError for a type it does not hold.
prepare_action_input(a) ==
    IF a.action_type \notin DOMAIN ACTION_CONFIG_KEYS
    THEN Raise("KeyError")
    ELSE Ok(InputActionConfig(ACTION_CONFIG_KEYS[a.action_type], a))

\* (mutant: the copy ignores the overrides)
model_copy_noupdate(o, u) == o
\* obj.model_copy(update=updates): a copy with the given fields replaced, unvalidated.
model_copy(o, u) == [k \in DOMAIN o |-> IF k \in DOMAIN u THEN u[k] ELSE o[k]]

\* PreparedAutomation.model_validate(updated): the fields of the automation, as given.
PreparedAutomation(updated) == updated

\* (mutant: the filter is passed on as it is)
UnwrapEventFilter_keep(f) == f
\* The conditional expression of prepare_update_input's event_filter argument.
UnwrapEventFilter(f) == IF f.tag = "wrapped" THEN f.filter ELSE f

\* A call's outcome: what it returns or raises (ret) and the object passed in, after the call (obj).
Outcome(r, o) == [ret |-> r, obj |-> o]

\* (mutant: the overrides are assigned to the object passed in)
prepare_create_input_inplace(o, u) ==
    LET updated == model_copy(o, u)
        prepared == PreparedAutomation(updated)
        config == prepare_action_input(prepared.action)
    IN  IF config.status # "ok" THEN Outcome(config, updated)
        ELSE Outcome(Ok([name |-> prepared.name, description |-> prepared.description, enabled |-> prepared.enabled, scope_type |-> prepared.scope.scope_type, scope_id |-> prepared.scope.id, triggering_event_type |-> prepared.event.event_type, event_filter |-> prepared.event.filter, triggered_action_type |-> prepared.action.action_type, triggered_action_config |-> config.payload]), updated)

\* prepare_create_input: copy with the overrides, validate, build CreateFilterTriggerInput.
prepare_create_input(o, u) ==
    LET updated == model_copy(o, u)
        prepared == PreparedAutomation(updated)
        config == prepare_action_input(prepared.action)
    IN  IF config.status # "ok" THEN Outcome(config, o)
        ELSE Outcome(Ok([name |-> prepared.name, description |-> prepared.description, enabled |-> prepared.enabled, scope_type |-> prepared.scope.scope_type, scope_id |-> prepared.scope.id, triggering_event_type |-> prepared.event.event_type, event_filter |-> prepared.event.filter, triggered_action_type |-> prepared.action.action_type, triggered_action_config |-> config.payload]), o)

\* UpdateFilterTriggerInput(...): the create fields plus id, the filter unwrapped.
UpdatePayload(updated, action_type, action_config) == [id |-> updated.id, name |-> updated.name, description |-> updated.description, enabled |-> updated.enabled, scope_type |-> updated.scope.scope_type, scope_id |-> updated.scope.id, triggering_event_type |-> updated.event.event_type, event_filter |-> UnwrapEventFilter(updated.event.filter), triggered_action_type |-> action_type, triggered_action_config |-> action_config]

\* (mutant: the action type is read before the overrides are applied)
prepare_update_input_oldtype(o, u) ==
    LET updated == model_copy(o, u)
        action_config == prepare_action_input(updated.action)
    IN  IF action_config.status # "ok" THEN Outcome(action_config, o)
        ELSE Outcome(Ok(UpdatePayload(updated, o.action.action_type, action_config.payload)), o)

\* (mutant: the preparer rejects a RUN_METRIC event outside a project scope itself)
prepare_update_input_validating(o, u) ==
    LET updated == model_copy(o, u)
        action_config == prepare_action_input(updated.action)
    IN  IF updated.event.event_type = "RUN_METRIC" /\ updated.scope.scope_type # "PROJECT" THEN Outcome(Raise("ValueError"), o)
        ELSE IF action_config.status # "ok" THEN Outcome(action_config, o)
        ELSE Outcome(Ok(UpdatePayload(updated, updated.action.action_type, action_config.payload)), o)

\* prepare_update_input: copy with the overrides, build UpdateFilterTriggerInput.
prepare_update_input(o, u) ==
    LET updated == model_copy(o, u)
        action_type == updated.action.action_type
        action_config == prepare_action_input(updated.action)
    IN  IF action_config.status # "ok" THEN Outcome(action_config, o)
        ELSE Outcome(Ok(UpdatePayload(updated, action_type, action_config.payload)), o)

(***************************************************************************)
(* The update path: Api.update_automation and the backend's answer         *)
(***************************************************************************)

\* The backend resolves a scope id to the scope it names.
ScopeById(i) == CHOOSE s \in Scopes : s.id = i

\* The saved shape of an action, as a read returns it.
ToSavedAction(a) == [a EXCEPT !.form = "saved"]

\* The backend's answer to an update: RUN_METRIC events accept only a project
\* scope (the request is rejected, a CommError); otherwise the stored trigger
\* is returned with the payload's values.
BackendUpdate(p) ==
    IF p.triggering_event_type = "RUN_METRIC" /\ p.scope_type = "ARTIFACT_COLLECTION"
    THEN [status |-> "error", error |-> "CommError", origin |-> "remote", payload |-> p, returned |-> Null]
    ELSE [status |-> "ok", error |-> None, origin |-> None, payload |-> p, returned |-> [id |-> p.id, name |-> p.name, description |-> p.description, enabled |-> p.enabled, scope |-> ScopeById(p.scope_id), event |-> Event(p.triggering_event_type, ScopeById(p.scope_id), WrappedEventFilter(p.event_filter)), action |-> ToSavedAction(CHOOSE a \in {p.triggered_action_config[f] : f \in ConfigFields} : a # Null)]]

\* Api.update_automation(obj, **updates): prepare the input, then send it.
update_automation(o, u) ==
    LET prepared == prepare_update_input(o, u)
    IN  IF prepared.ret.status # "ok" THEN prepared
        ELSE Outcome(BackendUpdate(prepared.ret.payload), prepared.obj)

(***************************************************************************)
(* Actions                                                                 *)
(***************************************************************************)
IsSaved(o) == o.id # None

PrepInit ==
    /\ obj \in Automations
    /\ op = "none"
    /\ updates = << >>
    /\ result = NoResult

Call(name, out, u) ==
    /\ op' = name
    /\ updates' = u
    /\ result' = out.ret
    /\ obj' = out.obj
    /\ UNCHANGED notPrepVars

\* The function a call name stands for.
Apply(name, o, u) ==
    CASE name = "prepare_create_input" -> prepare_create_input(o, u)
      [] name = "prepare_update_input" -> prepare_update_input(o, u)
      [] name = "update_automation" -> update_automation(o, u)

\* prepare_create_input(obj, **updates), on an unsaved or a saved automation.
PrepareCreate ==
    /\ op = "none"
    /\ \E u \in UpdateSets : Call("prepare_create_input", Apply("prepare_create_input", obj, u), u)

\* prepare_update_input(obj, **updates), on a saved automation.
PrepareUpdate ==
    /\ op = "none"
    /\ IsSaved(obj)
    /\ \E u \in UpdateSets : Call("prepare_update_input", Apply("prepare_update_input", obj, u), u)

\* api.update_automation(obj, **updates), on a saved automation.
UpdateAutomation ==
    /\ op = "none"
    /\ IsSaved(obj)
    /\ \E u \in UpdateSets : Call("update_automation", Apply("update_automation", obj, u), u)

\* The caller makes the last call again, with the same object and the same overrides.
CallAgain ==
    /\ op # "none"
    /\ Call(op, Apply(op, obj, updates), updates)

\* The caller drops the last call's result and keeps the object.
DropResult ==
    /\ op # "none"
    /\ op' = "none"
    /\ updates' = << >>
    /\ result' = NoResult
    /\ obj' = obj
    /\ UNCHANGED notPrepVars

PrepNext == PrepareUpdate \/ PrepareCreate \/ UpdateAutomation \/ CallAgain \/ DropResult

(***************************************************************************)
(* Paginated listing: AutomationsByEntity and AutomationsForViewer         *)
(***************************************************************************)
MaxFetches == 3

Cursors == {None, "c1", "c2"}
\* pageInfo as the backend sends it.
PageInfos == [hasNextPage : BOOLEAN, endCursor : Cursors]
\* The edges of a page: per project, the triggers of that project.
EdgeLists == {<< >>, <<[node |-> [triggers |-> <<"t1", "t2">>]], [node |-> [triggers |-> <<"t3">>]]>>, <<[node |-> [triggers |-> << >>]], [node |-> [triggers |-> <<"t2", "t1">>]], [node |-> [triggers |-> << >>]]>>}
\* The `projects` connection of a response.
Pages == [edges : EdgeLists, pageInfo : PageInfos]

\* What client.execute may answer: a well-formed document, or one that is not.
ResponseShapes == {"ok", "missing_searchScope", "missing_projects", "null_searchScope", "null_projects", "not_a_mapping", "invalid_page"}
Responses == {[shape |-> "ok", searchScope |-> [projects |-> pg]] : pg \in Pages} \cup {[shape |-> sh, searchScope |-> Null] : sh \in ResponseShapes \ {"ok"}}

\* ProjectConnectionFields.model_validate(page_data): the page under its field names.
ProjectConnectionFields(page_data) == [edges |-> page_data.edges, page_info |-> [has_next_page |-> page_data.pageInfo.hasNextPage, end_cursor |-> page_data.pageInfo.endCursor]]

\* data["searchScope"]["projects"] and ProjectConnectionFields.model_validate:
\* what the try block raises for a response (None when it raises nothing).
TryBlockRaises(data) ==
    CASE data.shape = "ok" -> None
      [] data.shape = "missing_searchScope" -> "KeyError"
      [] data.shape = "missing_projects" -> "KeyError"
      [] data.shape = "null_searchScope" -> "TypeError"
      [] data.shape = "null_projects" -> "ValidationError"
      [] data.shape = "not_a_mapping" -> "TypeError"
      [] data.shape = "invalid_page" -> "ValidationError"

\* except (LookupError, AttributeError, ValidationError)
Caught == {"KeyError", "IndexError", "AttributeError", "ValidationError"}

\* (mutant: only the first page is ever stored)
AutomationsByEntity_update_response_keepfirst(lr, data) == IF TryBlockRaises(data) = None THEN [last_response |-> IF lr = Null THEN ProjectConnectionFields(data.searchScope.projects) ELSE lr, raised |-> None] ELSE [last_response |-> lr, raised |-> "ValueError"]
\* AutomationsByEntity._update_response: the new last_response and what is raised.
AutomationsByEntity_update_response(lr, data) ==
    LET e == TryBlockRaises(data)
    IN  IF e = None THEN [last_response |-> ProjectConnectionFields(data.searchScope.projects), raised |-> None]
        ELSE IF e \in Caught THEN [last_response |-> lr, raised |-> "ValueError"]
        ELSE [last_response |-> lr, raised |-> e]

\* AutomationsForViewer._update_response
AutomationsForViewer_update_response(lr, data) ==
    LET e == TryBlockRaises(data)
    IN  IF e = None THEN [last_response |-> ProjectConnectionFields(data.searchScope.projects), raised |-> None]
        ELSE IF e \in Caught THEN [last_response |-> lr, raised |-> "ValueError"]
        ELSE [last_response |-> lr, raised |-> e]

\* AutomationsByEntity.more / AutomationsForViewer.more
AutomationsByEntity_more(lr) == IF lr = Null THEN TRUE ELSE lr.page_info.has_next_page
\* (mutant: more pages are always announced)
AutomationsForViewer_more_always(lr) == TRUE
AutomationsForViewer_more(lr) == IF lr = Null THEN TRUE ELSE lr.page_info.has_next_page

\* (mutant: the cursor never leaves the start)
AutomationsByEntity_cursor_none(lr) == None
\* AutomationsByEntity.cursor / AutomationsForViewer.cursor
AutomationsByEntity_cursor(lr) == IF lr = Null THEN None ELSE lr.page_info.end_cursor
AutomationsForViewer_cursor(lr) == IF lr = Null THEN None ELSE lr.page_info.end_cursor

\* Automation.model_validate_json(obj.model_dump_json()): the Automation instance of a trigger record.
DecodeAutomation(t) == [typename |-> "Automation", id |-> t]

\* chain.from_iterable(edge.node.triggers for edge in page.edges)
RECURSIVE ChainFromIterable(_)
ChainFromIterable(edges) == IF edges = << >> THEN << >> ELSE edges[1].node.triggers \o ChainFromIterable(Tail(edges))

\* (mutant: the edges are read last to first)
RECURSIVE ChainReversed(_)
ChainReversed(edges) == IF edges = << >> THEN << >> ELSE ChainReversed(Tail(edges)) \o edges[1].node.triggers
AutomationsByEntity_convert_objects_reversed(page) == LET ts == ChainReversed(page.edges) IN [i \in 1..Len(ts) |-> DecodeAutomation(ts[i])]
\* AutomationsByEntity.convert_objects / AutomationsForViewer.convert_objects
AutomationsByEntity_convert_objects(page) == LET ts == ChainFromIterable(page.edges) IN [i \in 1..Len(ts) |-> DecodeAutomation(ts[i])]
AutomationsForViewer_convert_objects(page) == LET ts == ChainFromIterable(page.edges) IN [i \in 1..Len(ts) |-> DecodeAutomation(ts[i])]

NotConverted == [status |-> "none", edges |-> << >>, objects |-> << >>]

more == IF mode = "by_entity" THEN AutomationsByEntity_more(last_response) ELSE AutomationsForViewer_more(last_response)
cursor == IF mode = "by_entity" THEN AutomationsByEntity_cursor(last_response) ELSE AutomationsForViewer_cursor(last_response)

\* A new paginator of either class: no page fetched yet.
PageInit ==
    /\ mode \in {"by_entity", "for_viewer"}
    /\ last_response = Null
    /\ received = << >>
    /\ fetch_error = None
    /\ fetches = 0
    /\ last_shape = "none"
    /\ converted = NotConverted

\* One call of _update_response: the client answers, the page is stored or an error raised.
UpdateResponse ==
    /\ fetches < MaxFetches
    /\ \E data \in Responses :
        LET r == IF mode = "by_entity" THEN AutomationsByEntity_update_response(last_response, data) ELSE AutomationsForViewer_update_response(last_response, data)
        IN  /\ last_response' = r.last_response
            /\ fetch_error' = r.raised
            /\ received' = IF data.shape = "ok" THEN Append(received, data.searchScope.projects.pageInfo) ELSE received
            /\ last_shape' = data.shape
    /\ fetches' = fetches + 1
    /\ mode' = mode
    /\ converted' = converted
    /\ UNCHANGED notPageVars

\* One call of convert_objects: the page stored last is decoded (without one, page.edges raises).
ConvertObjects ==
    /\ converted' = IF last_response = Null THEN [status |-> "AttributeError", edges |-> << >>, objects |-> << >>]
                    ELSE [status |-> "ok", edges |-> last_response.edges, objects |-> IF mode = "by_entity" THEN AutomationsByEntity_convert_objects(last_response) ELSE AutomationsForViewer_convert_objects(last_response)]
    /\ UNCHANGED <<mode, last_response, received, fetch_error, fetches, last_shape>>
    /\ UNCHANGED notPageVars

PageNext == UpdateResponse \/ ConvertObjects

(***************************************************************************)
(* Listing every automation: api.automations(entity, per_page) iterated    *)
(* to the end against a backend that pages by project                      *)
(***************************************************************************)
MaxProjects == 5
MaxPerProject == 2
MaxPerPage == 3

\* The backend's opaque cursor after the n-th project, and the position a cursor stands for.
CursorOf(n) == IF n = 0 THEN None ELSE "c" \o ToString(n)
IndexOf(c) == CHOOSE n \in 0..(MaxProjects + 1) : CursorOf(n) = c

\* The j-th automation of the i-th project.
TriggerOf(i, j) == "t" \o ToString(i) \o "_" \o ToString(j)

\* The backend's answer to a page request: at most `first` projects after the cursor,
\* each with its automations; hasNextPage tells whether projects remain after them.
BackendProjectsPage(P, k, first, after) ==
    LET start == IndexOf(after)
        end == IF start + first < P THEN start + first ELSE P
    IN  [edges |-> [i \in 1..(end - start) |-> [node |-> [triggers |-> [j \in 1..k |-> TriggerOf(start + i, j)]]]],
         pageInfo |-> [hasNextPage |-> end < P, endCursor |-> IF end = start THEN after ELSE CursorOf(end)]]

PageRequest(first, after) == [kind |-> "page", first |-> first, after |-> after]
IntrospectionRequest == [kind |-> "introspection", first |-> 0, after |-> None]

\* The listing before it is asked for: an entity with P projects of k automations each.
ListInit ==
    /\ total_projects \in 0..MaxProjects
    /\ per_project \in 1..MaxPerProject
    /\ per_page \in 1..MaxPerPage
    /\ requests = << >>
    /\ list_pc = "start"
    /\ objects = << >>

\* api.automations(entity=..., per_page=...): one introspection request, then a new paginator.
ListAutomations ==
    /\ list_pc = "start"
    /\ requests' = Append(requests, IntrospectionRequest)
    /\ list_pc' = "iterating"
    /\ UNCHANGED <<total_projects, per_project, per_page, objects>>
    /\ UNCHANGED pageVars
    /\ UNCHANGED notListVars

\* The iteration needs another page and more is true: the page after the cursor is
\* requested, stored by _update_response, decoded by convert_objects and yielded.
LoadPage ==
    /\ list_pc = "iterating"
    /\ more
    /\ LET data == [shape |-> "ok", searchScope |-> [projects |-> BackendProjectsPage(total_projects, per_project, per_page, cursor)]]
           r == IF mode = "by_entity" THEN AutomationsByEntity_update_response(last_response, data) ELSE AutomationsForViewer_update_response(last_response, data)
           objs == IF mode = "by_entity" THEN AutomationsByEntity_convert_objects(r.last_response) ELSE AutomationsForViewer_convert_objects(r.last_response)
       IN  /\ requests' = Append(requests, PageRequest(per_page, cursor))
           /\ last_response' = r.last_response
           /\ fetch_error' = r.raised
           /\ received' = Append(received, data.searchScope.projects.pageInfo)
           /\ last_shape' = data.shape
           /\ converted' = [status |-> "ok", edges |-> r.last_response.edges, objects |-> objs]
           /\ objects' = objects \o objs
    /\ fetches' = fetches + 1
    /\ UNCHANGED <<mode, total_projects, per_project, per_page, list_pc>>
    /\ UNCHANGED notListVars

\* The iteration needs another page and more is false: it stops.
StopIteration ==
    /\ list_pc = "iterating"
    /\ ~more
    /\ list_pc' = "done"
    /\ UNCHANGED <<total_projects, per_project, per_page, requests, objects>>
    /\ UNCHANGED pageVars
    /\ UNCHANGED notListVars

ListNext == ListAutomations \/ LoadPage \/ StopIteration

(***************************************************************************)
(* Creating, fetching and deleting automations through the Api             *)
(***************************************************************************)
MaxCreates == 3

StoreNames == {"n1", "n2"}
Entity == "user1"
\* The unsaved automations handed to create: `event >> action`, named by the call.
StoreInputs == {Automation(None, None, None, TRUE, Event("CREATE_ARTIFACT", P1, E1), a) : a \in {Notification("input", "m1"), NoOp("input")}}
\* The keyword arguments of a create call: a name, and a description or none.
CreateKwargs == {[name |-> n] : n \in StoreNames} \cup {[name |-> n, description |-> d] : n \in StoreNames, d \in {"d1", "ignored description"}}

ApiOk(a) == [status |-> "ok", error |-> None, origin |-> None, returned |-> a]
ApiRaise(e, o) == [status |-> "error", error |-> e, origin |-> o, returned |-> Null]

\* The backend stores a new trigger and returns it in its saved shape.
BackendCreate(p, i) == [id |-> i, name |-> p.name, description |-> p.description, enabled |-> p.enabled, scope |-> ScopeById(p.scope_id), event |-> Event(p.triggering_event_type, ScopeById(p.scope_id), WrappedEventFilter(p.event_filter)), action |-> ToSavedAction(CHOOSE a \in {p.triggered_action_config[f] : f \in ConfigFields} : a # Null)]

\* (mutant: a create under a taken name replaces what is stored)
create_automation_overwrite(st, o, kw, fetch_existing, i) ==
    LET prepared == prepare_create_input(o, kw)
        p == prepared.ret.payload
    IN  IF prepared.ret.status # "ok" THEN [store |-> st, ret |-> ApiRaise(prepared.ret.error, "local"), stored |-> FALSE]
        ELSE [store |-> [n \in DOMAIN st \cup {p.name} |-> IF n = p.name THEN BackendCreate(p, i) ELSE st[n]], ret |-> ApiOk(BackendCreate(p, i)), stored |-> TRUE]

\* Api.create_automation(obj, fetch_existing=..., **kwargs): prepare the input and send it;
\* the backend refuses a name the entity already uses, and the caller either gets
\* the refusal or, having asked for it, the automation stored under that name.
create_automation(st, o, kw, fetch_existing, i) ==
    LET prepared == prepare_create_input(o, kw)
        p == prepared.ret.payload
    IN  IF prepared.ret.status # "ok" THEN [store |-> st, ret |-> ApiRaise(prepared.ret.error, "local"), stored |-> FALSE]
        ELSE IF p.name \in DOMAIN st
             THEN [store |-> st, ret |-> IF fetch_existing THEN ApiOk(st[p.name]) ELSE ApiRaise("HTTPError", "remote"), stored |-> FALSE]
             ELSE [store |-> [n \in DOMAIN st \cup {p.name} |-> IF n = p.name THEN BackendCreate(p, i) ELSE st[n]], ret |-> ApiOk(BackendCreate(p, i)), stored |-> TRUE]

\* Api.automations(entity=..., name=...): the stored automations of that name, if the entity is theirs.
automations_by_name(st, entity, n) == IF n \in DOMAIN st /\ entity \in {None, Entity} THEN <<st[n]>> ELSE << >>

\* Api.automation(entity=..., name=...): the one automation of that name.
automation_by_name(st, entity, n) == IF automations_by_name(st, entity, n) = << >> THEN ApiRaise("ValueError", "local") ELSE ApiOk(automations_by_name(st, entity, n)[1])

\* Api.delete_automation(obj): the backend drops the trigger with that identity.
delete_automation(st, a) == [n \in {m \in DOMAIN st : st[m].id # a.id} |-> st[n]]

ApiCall(o, n, e, d, f, r, l) == [op |-> o, name |-> n, entity |-> e, description |-> d, fetch_existing |-> f, status |-> r.status, error |-> r.error, origin |-> r.origin, returned |-> r.returned, listed |-> l]
NoApiCall == ApiCall("none", None, None, None, FALSE, ApiOk(Null), << >>)

StoreInit ==
    /\ store = << >>
    /\ first_created = << >>
    /\ next_id = 1
    /\ api_call = NoApiCall

\* One create through `via` (api.create_automation, or the automation's own save).
CreateVia(via, o, kw, fetch_existing) ==
    LET r == create_automation(store, o, kw, fetch_existing, "id" \o ToString(next_id))
    IN  /\ store' = r.store
        /\ next_id' = IF r.stored THEN next_id + 1 ELSE next_id
        /\ first_created' = IF r.stored THEN [n \in DOMAIN first_created \cup {kw.name} |-> IF n = kw.name THEN [value |-> r.ret.returned, description |-> IF "description" \in DOMAIN kw THEN kw.description ELSE None] ELSE first_created[n]] ELSE first_created
        /\ api_call' = ApiCall(via, kw.name, None, IF "description" \in DOMAIN kw THEN kw.description ELSE None, fetch_existing, r.ret, << >>)
        /\ UNCHANGED notStoreVars

\* api.create_automation(event >> action, name=..., [description=...], [fetch_existing=...])
CreateAutomation ==
    /\ next_id <= MaxCreates
    /\ \E o \in StoreInputs, kw \in CreateKwargs, f \in BOOLEAN : CreateVia("create_automation", o, kw, f)

\* (event >> action).save(name=..., [description=...])
Save ==
    /\ next_id <= MaxCreates
    /\ \E o \in StoreInputs, kw \in CreateKwargs : CreateVia("save", o, kw, FALSE)

\* api.automation(name=...) and api.automation(entity=..., name=...)
FetchAutomation ==
    /\ \E n \in StoreNames, e \in {None, Entity} : api_call' = ApiCall("automation", n, e, None, FALSE, automation_by_name(store, e, n), << >>)
    /\ UNCHANGED <<store, first_created, next_id>>
    /\ UNCHANGED notStoreVars

\* list(api.automations(name=...))
ListByName ==
    /\ \E n \in StoreNames : api_call' = ApiCall("automations", n, None, None, FALSE, ApiOk(Null), automations_by_name(store, None, n))
    /\ UNCHANGED <<store, first_created, next_id>>
    /\ UNCHANGED notStoreVars

\* api.delete_automation(automation), for an automation a create returned and that is still stored.
DeleteAutomation ==
    /\ \E n \in DOMAIN store :
        /\ store' = delete_automation(store, first_created[n].value)
        /\ first_created' = [m \in DOMAIN first_created \ {n} |-> first_created[m]]
        /\ api_call' = ApiCall("delete_automation", n, None, None, FALSE, ApiOk(Null), << >>)
    /\ next_id' = next_id
    /\ UNCHANGED notStoreVars

StoreNext == CreateAutomation \/ Save \/ FetchAutomation \/ ListByName \/ DeleteAutomation

(***************************************************************************)
(* ServiceApi: one handle, used by two threads                             *)
(***************************************************************************)
MaxSends == 3

Threads == {"t1", "t2"}
\* str(uuid.uuid4()): the identifier a new handle starts with.
Uuid == "uuid4"
\* The service connection wandb_setup.singleton().ensure_service() returns.
Connection == "conn"
\* The id the backend puts into the n-th api_init_request's response.
BackendApiId(n) == "api" \o ToString(n)

NoLocals == [kind |-> None, response |-> None, conn |-> None, request_id |-> None]

\* ServiceApi.__init__: no connection, a fresh uuid as the id; nothing is asked of the service.
ServiceApiInit ==
    /\ serialized \in BOOLEAN
    /\ service_connection = None
    /\ api_id = Uuid
    /\ pc = [t \in Threads |-> "idle"]
    /\ locals = [t \in Threads |-> NoLocals]
    /\ ensure_calls = 0
    /\ init_calls = 0
    /\ init_ids = << >>
    /\ finalizers = << >>
    /\ sent = << >>
    /\ cleanups = << >>
    /\ dropped = "no"
    /\ sends_started = 0

\* (mutant: every call takes the connection for missing)
NeedsConnection_always(conn) == TRUE
\* `if self._service_connection is None`
NeedsConnection(conn) == conn = None

\* (mutant: the finalizer is registered with the handle's first id)
FinalizeArgs_uuid(conn, id) == [connection |-> conn, api_id |-> Uuid]
\* The arguments weakref.finalize binds: the connection and the id as they are at that moment.
FinalizeArgs(conn, id) == [connection |-> conn, api_id |-> id]

\* _cleanup(connection, api_id): the ids of the api_cleanup_request calls the finalizers make.
RECURSIVE CleanupRequests(_)
CleanupRequests(fs) == IF fs = << >> THEN << >> ELSE (IF fs[1].connection # None THEN <<fs[1].api_id>> ELSE << >>) \o CleanupRequests(Tail(fs))

\* A thread calls send_api_request (kind "sync") or send_api_request_async (kind "async").
StartSend(t, kind) ==
    /\ sends_started < MaxSends
    /\ pc[t] = "idle"
    /\ serialized => \A u \in Threads : pc[u] = "idle"
    /\ pc' = [pc EXCEPT ![t] = "check"]
    /\ locals' = [locals EXCEPT ![t] = [NoLocals EXCEPT !.kind = kind]]
    /\ sends_started' = sends_started + 1
    /\ UNCHANGED <<serialized, service_connection, api_id, ensure_calls, init_calls, init_ids, finalizers, sent, cleanups, dropped>>
    /\ UNCHANGED notSvcVars

SendApiRequest ==
    /\ dropped = "no"
    /\ \E t \in Threads : StartSend(t, "sync")

SendApiRequestAsync ==
    /\ dropped = "no"
    /\ \E t \in Threads : StartSend(t, "async")

\* _get_service_connection, line 33: the test of self._service_connection.
CheckConnection ==
    \E t \in Threads :
        /\ pc[t] = "check"
        /\ pc' = [pc EXCEPT ![t] = IF NeedsConnection(service_connection) THEN "ensure" ELSE "return"]
        /\ UNCHANGED <<serialized, service_connection, api_id, locals, ensure_calls, init_calls, init_ids, finalizers, sent, cleanups, dropped, sends_started>>
        /\ UNCHANGED notSvcVars

\* line 34: self._service_connection = wandb_setup.singleton().ensure_service()
EnsureService ==
    \E t \in Threads :
        /\ pc[t] = "ensure"
        /\ service_connection' = Connection
        /\ ensure_calls' = ensure_calls + 1
        /\ pc' = [pc EXCEPT ![t] = "init"]
        /\ UNCHANGED <<serialized, api_id, locals, init_calls, init_ids, finalizers, sent, cleanups, dropped, sends_started>>
        /\ UNCHANGED notSvcVars

\* lines 36-38: response = self._service_connection.api_init_request(...), answered.
ApiInitRequest ==
    \E t \in Threads :
        /\ pc[t] = "init"
        /\ init_calls' = init_calls + 1
        /\ init_ids' = Append(init_ids, BackendApiId(init_calls + 1))
        /\ locals' = [locals EXCEPT ![t].response = BackendApiId(init_calls + 1)]
        /\ pc' = [pc EXCEPT ![t] = "assign"]
        /\ UNCHANGED <<serialized, service_connection, api_id, ensure_calls, finalizers, sent, cleanups, dropped, sends_started>>
        /\ UNCHANGED notSvcVars

\* lines 36-38: api_init_request raises; the exception leaves the call, the connection stays assigned.
ApiInitRequestFails ==
    \E t \in Threads :
        /\ pc[t] = "init"
        /\ init_calls' = init_calls + 1
        /\ pc' = [pc EXCEPT ![t] = "idle"]
        /\ locals' = [locals EXCEPT ![t] = NoLocals]
        /\ UNCHANGED <<serialized, service_connection, api_id, ensure_calls, init_ids, finalizers, sent, cleanups, dropped, sends_started>>
        /\ UNCHANGED notSvcVars

\* line 39: self._api_id = response.id
AssignApiId ==
    \E t \in Threads :
        /\ pc[t] = "assign"
        /\ api_id' = locals[t].response
        /\ pc' = [pc EXCEPT ![t] = "finalize"]
        /\ UNCHANGED <<serialized, service_connection, locals, ensure_calls, init_calls, init_ids, finalizers, sent, cleanups, dropped, sends_started>>
        /\ UNCHANGED notSvcVars

\* lines 40-45: weakref.finalize(self, _cleanup, self._service_connection, self._api_id)
RegisterFinalizer ==
    \E t \in Threads :
        /\ pc[t] = "finalize"
        /\ finalizers' = Append(finalizers, FinalizeArgs(service_connection, api_id))
        /\ pc' = [pc EXCEPT ![t] = "return"]
        /\ UNCHANGED <<serialized, service_connection, api_id, locals, ensure_calls, init_calls, init_ids, sent, cleanups, dropped, sends_started>>
        /\ UNCHANGED notSvcVars

\* line 47 and lines 58 / 72: conn = self._get_service_connection()
ReturnConnection ==
    \E t \in Threads :
        /\ pc[t] = "return"
        /\ locals' = [locals EXCEPT ![t].conn = service_connection]
        /\ pc' = [pc EXCEPT ![t] = "set_id"]
        /\ UNCHANGED <<serialized, service_connection, api_id, ensure_calls, init_calls, init_ids, finalizers, sent, cleanups, dropped, sends_started>>
        /\ UNCHANGED notSvcVars

\* (mutant: the request keeps the id the handle was built with)
RequestId_uuid(id) == Uuid
\* The value request.id is given: self._api_id as it is at that moment.
RequestId(id) == id

\* lines 59 / 73: request.id = self._api_id
SetRequestId ==
    \E t \in Threads :
        /\ pc[t] = "set_id"
        /\ locals' = [locals EXCEPT ![t].request_id = RequestId(api_id)]
        /\ pc' = [pc EXCEPT ![t] = "submit"]
        /\ UNCHANGED <<serialized, service_connection, api_id, ensure_calls, init_calls, init_ids, finalizers, sent, cleanups, dropped, sends_started>>
        /\ UNCHANGED notSvcVars

\* lines 60 / 74: conn.api_request(request, timeout) or await conn.api_request_async(request)
SubmitRequest ==
    \E t \in Threads :
        /\ pc[t] = "submit"
        /\ sent' = Append(sent, [id |-> locals[t].request_id, kind |-> locals[t].kind, thread |-> t])
        /\ pc' = [pc EXCEPT ![t] = "idle"]
        /\ locals' = [locals EXCEPT ![t] = NoLocals]
        /\ UNCHANGED <<serialized, service_connection, api_id, ensure_calls, init_calls, init_ids, finalizers, cleanups, dropped, sends_started>>
        /\ UNCHANGED notSvcVars

\* The handle is dropped: every registered finalizer runs _cleanup, whose
\* api_cleanup_request may raise; contextlib.suppress keeps the exception in.
DropHandle ==
    /\ dropped = "no"
    /\ \A t \in Threads : pc[t] = "idle"
    /\ cleanups' = cleanups \o CleanupRequests(finalizers)
    /\ dropped' \in (IF CleanupRequests(finalizers) = << >> THEN {"clean"} ELSE {"clean", "suppressed"})
    /\ UNCHANGED <<serialized, service_connection, api_id, pc, locals, ensure_calls, init_calls, init_ids, finalizers, sent, sends_started>>
    /\ UNCHANGED notSvcVars

ServiceApiNext == SendApiRequest \/ SendApiRequestAsync \/ CheckConnection \/ EnsureService \/ ApiInitRequest \/ ApiInitRequestFails \/ AssignApiId \/ RegisterFinalizer \/ ReturnConnection \/ SetRequestId \/ SubmitRequest \/ DropHandle

(***************************************************************************)
(* Local server: wait_until_healthy and _wait_for_http_200                 *)
(***************************************************************************)
MaxTimeout == 3
\* The clock's resolution: ticks per second.
TicksPerSecond == 2

\* What a GET may end in: a response with a status code, or an exception of requests.
\* ConnectTimeout is both a ConnectionError and a Timeout.
Answers == {"200", "503", "ConnectionError", "ConnectTimeout", "Timeout"}

\* time_remaining(): timeout - (time.monotonic() - start_time), in ticks.
time_remaining(timeout, start, t) == timeout * TicksPerSecond - (t - start)

\* timeout=max(1, time_remaining()), in ticks.
GetTimeout(timeout, start, t) == IF time_remaining(timeout, start, t) > TicksPerSecond THEN time_remaining(timeout, start, t) ELSE TicksPerSecond

\* (mutant: the deadline is never looked at)
AfterAnswer_nodeadline(answer, remaining) == IF answer = "200" THEN "returned" ELSE IF answer = "Timeout" THEN "TimeoutError" ELSE "sleep"
\* The body of the loop after the GET: return on 200; ConnectionError (the first except
\* clause, which also takes ConnectTimeout) is passed over; Timeout becomes TimeoutError;
\* then the deadline test, and otherwise the sleep.
AfterAnswer(answer, remaining) ==
    IF answer = "200" THEN "returned"
    ELSE IF answer = "Timeout" THEN "TimeoutError"
    ELSE IF remaining <= 0 THEN "TimeoutError"
    ELSE "sleep"

NoAnswer == [answer |-> None, at |-> 0]

\* wait_until_healthy(timeout=...) calls _wait_for_http_200 for the /ready URL.
WaitInit ==
    /\ wait_timeout \in 0..MaxTimeout
    /\ clock = 0
    /\ start_time = 0
    /\ wait_url = "ready"
    /\ wait_pc = "get"
    /\ attempts = 0
    /\ last_answer = NoAnswer

\* One pass of the loop up to the sleep: the GET takes d ticks and ends in an answer
\* (a Timeout comes when the time the GET was given is used up).
HttpGet ==
    /\ wait_pc = "get"
    /\ \E answer \in Answers, d \in 0..GetTimeout(wait_timeout, start_time, clock) :
        /\ answer \in {"Timeout", "ConnectTimeout"} => d = GetTimeout(wait_timeout, start_time, clock)
        /\ clock' = clock + d
        /\ last_answer' = [answer |-> answer, at |-> clock + d]
        /\ wait_pc' = AfterAnswer(answer, time_remaining(wait_timeout, start_time, clock + d))
    /\ attempts' = attempts + 1
    /\ UNCHANGED <<wait_timeout, start_time, wait_url>>
    /\ UNCHANGED notWaitVars

\* time.sleep(1), then the next pass.
Sleep ==
    /\ wait_pc = "sleep"
    /\ clock' = clock + TicksPerSecond
    /\ wait_pc' = "get"
    /\ UNCHANGED <<wait_timeout, start_time, wait_url, attempts, last_answer>>
    /\ UNCHANGED notWaitVars

\* wait_until_healthy: the /ready wait has returned, the /health wait starts with its own start_time.
WaitForNextUrl ==
    /\ wait_pc = "returned"
    /\ wait_url = "ready"
    /\ wait_url' = "health"
    /\ start_time' = clock
    /\ wait_pc' = "get"
    /\ attempts' = 0
    /\ last_answer' = NoAnswer
    /\ UNCHANGED <<wait_timeout, clock>>
    /\ UNCHANGED notWaitVars

WaitNext == HttpGet \/ Sleep \/ WaitForNextUrl

(***************************************************************************)
(* Local server: the start, stop, connect and print-debug commands,        *)
(* each run by its own process on the shared state file                    *)
(***************************************************************************)
MaxCommands == 3

Procs == {"p1", "p2"}
ServerNames == {"a", "b"}
\* The order in which a dict lists its keys.
NameOrder == <<"a", "b">>

\* _ServerInfo of a container this script starts, and of a backend given by --hostname.
ManagedServer(b, f) == [managed |-> TRUE, hostname |-> "localhost", base_port |-> b, fixture_port |-> f]
ExternalServer(h, b, f) == [managed |-> FALSE, hostname |-> h, base_port |-> b, fixture_port |-> f]
\* The host ports `docker port` reports for a container (8080 and 9015 published).
ContainerPorts == [base_port |-> 32768, fixture_port |-> 32769]

Command(c, n, ns) == [cmd |-> c, name |-> n, names |-> ns]
NoCommand == Command("none", None, << >>)
\* The command lines tried.
StopNames == {<< >>, <<"a">>, <<"b", "a">>}
Commands == {Command("start", n, << >>) : n \in ServerNames} \cup {Command("start_external", n, << >>) : n \in ServerNames} \cup {Command("stop", None, ns) : ns \in StopNames} \cup {Command("connect", "a", << >>), Command("print_debug", None, << >>)}

\* What the two health endpoints answer within the timeout.
HealthAnswers == {"both_200", "ready_not_200", "health_not_200"}
\* _ServerInfo.wait_until_healthy: returns when /ready and then /health answered 200, else TimeoutError.
wait_until_healthy(h) == IF h = "both_200" THEN "returned" ELSE "TimeoutError"

\* info.servers[name] = server, info.servers.pop(name, None), list(info.servers.keys())
Put(servers, n, srv) == [m \in DOMAIN servers \cup {n} |-> IF m = n THEN srv ELSE servers[m]]
Pop(servers, n) == [m \in DOMAIN servers \ {n} |-> servers[m]]
Keys(servers) == SelectSeq(NameOrder, LAMBDA n : n \in DOMAIN servers)

\* What a command's `with _info_file()` block comes to: the servers it leaves in the
\* state object, whether the block ended normally (the state is then written), the exit
\* code, the JSON printed, whether `docker run` was issued and started a container, and
\* the `docker rm` calls made.
Block(servers, written, exit, json, docker_run, started, removals) == [servers |-> servers, written |-> written, exit |-> exit, json |-> json, docker_run |-> docker_run, started |-> started, removals |-> removals]

\* _start_interactively: a healthy recorded server ends the command (sys.exit(0) inside the
\* block); otherwise the entry is set, `docker run` and the port lookup follow
\* (CalledProcessError and sys.exit(1) leave the block), then the health wait.
start_interactively(servers, name, prev_health, run_ok, ports_ok, health) ==
    IF name \in DOMAIN servers /\ wait_until_healthy(prev_health) = "returned" THEN Block(servers, FALSE, 0, Null, FALSE, FALSE, << >>)
    ELSE IF ~run_ok THEN Block(Put(servers, name, ManagedServer(0, 0)), FALSE, 1, Null, TRUE, FALSE, << >>)
    ELSE IF ~ports_ok THEN Block(Put(servers, name, ManagedServer(0, 0)), FALSE, 1, Null, TRUE, TRUE, << >>)
    ELSE IF wait_until_healthy(health) # "returned" THEN Block(Put(servers, name, ManagedServer(ContainerPorts.base_port, ContainerPorts.fixture_port)), FALSE, 1, Null, TRUE, TRUE, << >>)
    ELSE Block(Put(servers, name, ManagedServer(ContainerPorts.base_port, ContainerPorts.fixture_port)), TRUE, 0, Null, TRUE, TRUE, << >>)

\* (mutant: a recorded name is overwritten)
start_external_overwrite(servers, name, health) ==
    IF wait_until_healthy(health) # "returned" THEN Block(Put(servers, name, ExternalServer("host1", 8080, 9015)), FALSE, 1, Null, FALSE, FALSE, << >>)
    ELSE Block(Put(servers, name, ExternalServer("host1", 8080, 9015)), TRUE, 0, Null, FALSE, FALSE, << >>)
\* _start_external: a recorded name ends the command with 1; otherwise the entry is set
\* and the health wait follows.
start_external(servers, name, health) ==
    IF name \in DOMAIN servers THEN Block(servers, FALSE, 1, Null, FALSE, FALSE, << >>)
    ELSE IF wait_until_healthy(health) # "returned" THEN Block(Put(servers, name, ExternalServer("host1", 8080, 9015)), FALSE, 1, Null, FALSE, FALSE, << >>)
    ELSE Block(Put(servers, name, ExternalServer("host1", 8080, 9015)), TRUE, 0, Null, FALSE, FALSE, << >>)

\* (mutant: every popped server is stopped)
StopsContainer_always(server) == TRUE
\* `if not server.managed: ... continue`: only a managed server's container is removed.
StopsContainer(server) == server.managed

\* The loop of stop over the names; rm_fails are the names whose `docker rm -f` fails.
RECURSIVE stop_loop(_, _, _)
stop_loop(servers, names, rm_fails) ==
    IF names = << >> THEN [servers |-> servers, removals |-> << >>, all_good |-> TRUE]
    ELSE LET name == Head(names)
             rest == stop_loop(Pop(servers, name), Tail(names), rm_fails)
         IN  IF name \notin DOMAIN servers THEN [rest EXCEPT !.all_good = FALSE]
             ELSE IF ~StopsContainer(servers[name]) THEN rest
             ELSE [rest EXCEPT !.removals = <<[name |-> name, ok |-> name \notin rm_fails]>> \o @, !.all_good = @ /\ name \notin rm_fails]

\* (mutant: a failed stop leaves the block before the state is written)
stop_exits_inside(servers, names, rm_fails) ==
    LET ns == IF names = << >> THEN Keys(servers) ELSE names
        r == stop_loop(servers, ns, rm_fails)
    IN  IF ns = << >> THEN Block(servers, FALSE, 1, Null, FALSE, FALSE, << >>)
        ELSE Block(r.servers, r.all_good, IF r.all_good THEN 0 ELSE 1, Null, FALSE, FALSE, r.removals)
\* stop: all recorded servers when no name is given; sys.exit(1) inside the block when
\* there is none; the exit code after the block follows all_good.
stop(servers, names, rm_fails) ==
    LET ns == IF names = << >> THEN Keys(servers) ELSE names
        r == stop_loop(servers, ns, rm_fails)
    IN  IF ns = << >> THEN Block(servers, FALSE, 1, Null, FALSE, FALSE, << >>)
        ELSE Block(r.servers, TRUE, IF r.all_good THEN 0 ELSE 1, Null, FALSE, FALSE, r.removals)

\* (mutant: a recorded server is reported without looking at its health)
connect_nohealth(servers, name, health) == IF name \notin DOMAIN servers THEN Block(servers, TRUE, 1, Null, FALSE, FALSE, << >>) ELSE Block(servers, TRUE, 0, [base_port |-> servers[name].base_port, fixture_port |-> servers[name].fixture_port], FALSE, FALSE, << >>)
\* connect: the block only looks the server up; after it, an unknown or unhealthy server
\* exits with 1, a healthy one prints its ports.
connect(servers, name, health) ==
    IF name \notin DOMAIN servers THEN Block(servers, TRUE, 1, Null, FALSE, FALSE, << >>)
    ELSE IF wait_until_healthy(health) # "returned" THEN Block(servers, TRUE, 1, Null, FALSE, FALSE, << >>)
    ELSE Block(servers, TRUE, 0, [base_port |-> servers[name].base_port, fixture_port |-> servers[name].fixture_port], FALSE, FALSE, << >>)

\* print_debug: the block only prints the state.
print_debug(servers) == Block(servers, TRUE, 0, Null, FALSE, FALSE, << >>)

\* What a process holds of its command: the servers read, the health answers it got, the block's result.
Pending(before, prev_health, health, block) == [before |-> before, prev_health |-> prev_health, health |-> health, block |-> block]
NoBlock == Block(<< >>, FALSE, 0, Null, FALSE, FALSE, << >>)
NoPending == Pending(<< >>, None, None, NoBlock)

\* (mutant: the lock never keeps anyone out)
LockFree_always(l) == TRUE
\* filelock.FileLock(...): the lock can be taken when nobody holds it.
LockFree(l) == l = None

\* (mutant: the state is written however the block ended)
WritesState_always(block) == TRUE
\* The lines after `yield state` run only when the block ended normally.
WritesState(block) == block.written

ServerInit ==
    /\ state_file = << >>
    /\ containers = {}
    /\ lock = None
    /\ spc = [p \in Procs |-> "idle"]
    /\ cmd = [p \in Procs |-> NoCommand]
    /\ pending = [p \in Procs |-> NoPending]
    /\ commands_started = 0

\* A process is started with one of the command lines.
RunCommand ==
    /\ commands_started < MaxCommands
    /\ \E p \in Procs, c \in Commands :
        /\ spc[p] = "idle"
        /\ cmd' = [cmd EXCEPT ![p] = c]
        /\ spc' = [spc EXCEPT ![p] = "lock"]
        /\ pending' = [pending EXCEPT ![p] = NoPending]
    /\ commands_started' = commands_started + 1
    /\ UNCHANGED <<state_file, containers, lock>>
    /\ UNCHANGED notSrvVars

\* _info_file: `with filelock.FileLock(...)`
AcquireLock ==
    \E p \in Procs :
        /\ spc[p] = "lock"
        /\ LockFree(lock)
        /\ lock' = p
        /\ spc' = [spc EXCEPT ![p] = "read"]
        /\ UNCHANGED <<state_file, containers, cmd, pending, commands_started>>
        /\ UNCHANGED notSrvVars

\* _info_file: the file is read and parsed into the state object that is yielded.
ReadState ==
    \E p \in Procs :
        /\ spc[p] = "read"
        /\ pending' = [pending EXCEPT ![p] = Pending(state_file, None, None, NoBlock)]
        /\ spc' = [spc EXCEPT ![p] = "body"]
        /\ UNCHANGED <<state_file, containers, lock, cmd, commands_started>>
        /\ UNCHANGED notSrvVars

\* The block of a command has run: p moves on to the write, or past it.
EndBlock(p, prev_health, health, block) ==
    /\ pending' = [pending EXCEPT ![p] = Pending(pending[p].before, prev_health, health, block)]
    /\ spc' = [spc EXCEPT ![p] = IF WritesState(block) THEN "write" ELSE "exit"]
    /\ containers' = (containers \cup (IF block.started THEN {cmd[p].name} ELSE {})) \ {block.removals[i].name : i \in {j \in 1..Len(block.removals) : block.removals[j].ok}}
    /\ UNCHANGED <<state_file, lock, cmd, commands_started>>
    /\ UNCHANGED notSrvVars

\* start (without --hostname): `docker run` cannot succeed under a name a container already has.
StartInteractively ==
    \E p \in Procs :
        /\ spc[p] = "body" /\ cmd[p].cmd = "start"
        /\ \E prev_health \in HealthAnswers, health \in HealthAnswers, run_ok \in BOOLEAN, ports_ok \in BOOLEAN :
            /\ run_ok => cmd[p].name \notin containers
            /\ EndBlock(p, prev_health, health, start_interactively(pending[p].before, cmd[p].name, prev_health, run_ok, ports_ok, health))

\* start --hostname ... --base-port ... --fixture-port ...
StartExternal ==
    \E p \in Procs :
        /\ spc[p] = "body" /\ cmd[p].cmd = "start_external"
        /\ \E health \in HealthAnswers : EndBlock(p, None, health, start_external(pending[p].before, cmd[p].name, health))

\* stop [--name ...]
Stop ==
    \E p \in Procs :
        /\ spc[p] = "body" /\ cmd[p].cmd = "stop"
        /\ \E rm_fails \in SUBSET ServerNames : EndBlock(p, None, None, stop(pending[p].before, cmd[p].names, rm_fails))

\* connect --name ... (the health wait and the exit follow the block)
Connect ==
    \E p \in Procs :
        /\ spc[p] = "body" /\ cmd[p].cmd = "connect"
        /\ \E health \in HealthAnswers : EndBlock(p, None, health, connect(pending[p].before, cmd[p].name, health))

\* print-debug
PrintDebug ==
    \E p \in Procs :
        /\ spc[p] = "body" /\ cmd[p].cmd = "print_debug"
        /\ EndBlock(p, None, None, print_debug(pending[p].before))

\* _info_file after the yield: f.truncate(0); f.write(state.model_dump_json())
WriteState ==
    \E p \in Procs :
        /\ spc[p] = "write"
        /\ state_file' = pending[p].block.servers
        /\ spc' = [spc EXCEPT ![p] = "exit"]
        /\ UNCHANGED <<containers, lock, cmd, pending, commands_started>>
        /\ UNCHANGED notSrvVars

\* The lock is released (the block ended, normally or not) and the process exits.
ReleaseLock ==
    \E p \in Procs :
        /\ spc[p] = "exit"
        /\ lock' = IF lock = p THEN None ELSE lock
        /\ spc' = [spc EXCEPT ![p] = "idle"]
        /\ cmd' = [cmd EXCEPT ![p] = NoCommand]
        /\ pending' = [pending EXCEPT ![p] = NoPending]
        /\ UNCHANGED <<state_file, containers, commands_started>>
        /\ UNCHANGED notSrvVars

ServerNext == RunCommand \/ AcquireLock \/ ReadState \/ StartInteractively \/ StartExternal \/ Stop \/ Connect \/ PrintDebug \/ WriteState \/ ReleaseLock

(***************************************************************************)
(* wandb.init(reinit=...) and Run.finish, and the global wandb.run         *)
(***************************************************************************)
MaxRuns == 4

\* wandb.run is None
NoRun == 0
\* The values of the reinit setting.
ReinitValues == {"allow", "True", "finish_previous", "False", "return_previous"}

\* The runs that are not finished, and the one of them created last.
ActiveRuns(rs) == {i \in 1..Len(rs) : ~rs[i].finished}
OldestActiveRun(rs) == CHOOSE i \in ActiveRuns(rs) : \A j \in ActiveRuns(rs) : j >= i
MostRecentActiveRun(rs) == CHOOSE i \in ActiveRuns(rs) : \A j \in ActiveRuns(rs) : j <= i

\* (mutant: finishing wandb.run hands the global to the most recent unfinished run)
finish_promote(rs, g, i) ==
    LET after == [rs EXCEPT ![i].finished = TRUE]
    IN  [runs |-> after, wandb_run |-> IF g = i THEN (IF ActiveRuns(after) = {} THEN NoRun ELSE MostRecentActiveRun(after)) ELSE g]
\* run.finish(): the run is finished; wandb.run becomes None if it is this run.
finish(rs, g, i) == [runs |-> [rs EXCEPT ![i].finished = TRUE], wandb_run |-> IF g = i THEN NoRun ELSE g]

\* Every unfinished run is finished, one after the other.
finish_all(rs, g) == [runs |-> [i \in 1..Len(rs) |-> [finished |-> TRUE]], wandb_run |-> IF g # NoRun /\ g \in ActiveRuns(rs) THEN NoRun ELSE g]

\* A new run is created; it becomes wandb.run if wandb.run is None.
new_run(rs, g) == [runs |-> Append(rs, [finished |-> FALSE]), wandb_run |-> IF g = NoRun THEN Len(rs) + 1 ELSE g, returned |-> Len(rs) + 1, created |-> TRUE]

\* (mutant: return_previous hands back the oldest unfinished run)
init_oldest(rs, g, reinit) ==
    IF reinit \in {"False", "return_previous"} /\ ActiveRuns(rs) # {} THEN [runs |-> rs, wandb_run |-> g, returned |-> OldestActiveRun(rs), created |-> FALSE]
    ELSE IF reinit \in {"True", "finish_previous"} THEN new_run(finish_all(rs, g).runs, finish_all(rs, g).wandb_run)
    ELSE new_run(rs, g)
\* wandb.init(reinit=...)
init(rs, g, reinit) ==
    IF reinit \in {"False", "return_previous"} /\ ActiveRuns(rs) # {} THEN [runs |-> rs, wandb_run |-> g, returned |-> MostRecentActiveRun(rs), created |-> FALSE]
    ELSE IF reinit \in {"True", "finish_previous"} THEN new_run(finish_all(rs, g).runs, finish_all(rs, g).wandb_run)
    ELSE new_run(rs, g)

LastCall(o, r, i, c) == [op |-> o, reinit |-> r, run |-> i, created |-> c]

RunsInit ==
    /\ runs = << >>
    /\ wandb_run = NoRun
    /\ last_call = LastCall("none", None, NoRun, FALSE)

\* wandb.init(mode="offline", reinit=...)
WandbInit ==
    /\ Len(runs) < MaxRuns
    /\ \E reinit \in ReinitValues :
        LET r == init(runs, wandb_run, reinit)
        IN  /\ runs' = r.runs
            /\ wandb_run' = r.wandb_run
            /\ last_call' = LastCall("init", reinit, r.returned, r.created)
    /\ UNCHANGED notRunVars

\* run.finish(), also at the end of `with wandb.init(...)`
Finish ==
    /\ \E i \in 1..Len(runs) :
        LET r == finish(runs, wandb_run, i)
        IN  /\ runs' = r.runs
            /\ wandb_run' = r.wandb_run
            /\ last_call' = LastCall("finish", None, i, FALSE)
    /\ UNCHANGED notRunVars

RunsNext == WandbInit \/ Finish

(***************************************************************************)
(* Specifications                                                          *)
(***************************************************************************)
\* The preparers at rest, while the listing runs; the listing at rest, while the preparers run.
PrepIdle == obj = Automation("id1", "n1", None, TRUE, Event("CREATE_ARTIFACT", P1, WrappedEventFilter(E1)), NoOp("saved")) /\ op = "none" /\ updates = << >> /\ result = NoResult
PageIdle == mode = "by_entity" /\ last_response = Null /\ received = << >> /\ fetch_error = None /\ fetches = 0 /\ last_shape = "none" /\ converted = NotConverted

ListIdle == total_projects = 0 /\ per_project = 1 /\ per_page = 1 /\ requests = << >> /\ list_pc = "idle" /\ objects = << >>

StoreIdle == store = << >> /\ first_created = << >> /\ next_id = 1 /\ api_call = NoApiCall

SvcIdle == serialized = TRUE /\ service_connection = None /\ api_id = Uuid /\ pc = [t \in Threads |-> "idle"] /\ locals = [t \in Threads |-> NoLocals] /\ ensure_calls = 0 /\ init_calls = 0 /\ init_ids = << >> /\ finalizers = << >> /\ sent = << >> /\ cleanups = << >> /\ dropped = "no" /\ sends_started = 0

WaitIdle == wait_timeout = 0 /\ clock = 0 /\ start_time = 0 /\ wait_url = "ready" /\ wait_pc = "idle" /\ attempts = 0 /\ last_answer = NoAnswer

SrvIdle == state_file = << >> /\ containers = {} /\ lock = None /\ spc = [p \in Procs |-> "idle"] /\ cmd = [p \in Procs |-> NoCommand] /\ pending = [p \in Procs |-> NoPending] /\ commands_started = 0

RunIdle == runs = << >> /\ wandb_run = NoRun /\ last_call = LastCall("none", None, NoRun, FALSE)

vars == <<prepVars, pageVars, listVars, storeVars, svcVars, waitVars, srvVars, runVars>>

Init == PrepInit /\ PageIdle /\ ListIdle /\ StoreIdle /\ SvcIdle /\ WaitIdle /\ SrvIdle /\ RunIdle
Next == PrepNext
Spec == Init /\ [][Next]_vars

InitPaginator == PageInit /\ PrepIdle /\ ListIdle /\ StoreIdle /\ SvcIdle /\ WaitIdle /\ SrvIdle /\ RunIdle
NextPaginator == PageNext
SpecPaginator == InitPaginator /\ [][NextPaginator]_vars

InitListing == ListInit /\ PageInit /\ PrepIdle /\ StoreIdle /\ SvcIdle /\ WaitIdle /\ SrvIdle /\ RunIdle
NextListing == ListNext
SpecListing == InitListing /\ [][NextListing]_vars

InitStore == StoreInit /\ PrepIdle /\ PageIdle /\ ListIdle /\ SvcIdle /\ WaitIdle /\ SrvIdle /\ RunIdle
NextStore == StoreNext
SpecStore == InitStore /\ [][NextStore]_vars

InitServiceApi == ServiceApiInit /\ PrepIdle /\ PageIdle /\ ListIdle /\ StoreIdle /\ WaitIdle /\ SrvIdle /\ RunIdle
NextServiceApi == ServiceApiNext
SpecServiceApi == InitServiceApi /\ [][NextServiceApi]_vars

InitWait == WaitInit /\ PrepIdle /\ PageIdle /\ ListIdle /\ StoreIdle /\ SvcIdle /\ SrvIdle /\ RunIdle
NextWait == WaitNext
SpecWait == InitWait /\ [][NextWait]_vars

InitServer == ServerInit /\ PrepIdle /\ PageIdle /\ ListIdle /\ StoreIdle /\ SvcIdle /\ WaitIdle /\ RunIdle
NextServer == ServerNext
SpecServer == InitServer /\ [][NextServer]_vars

InitRuns == RunsInit /\ PrepIdle /\ PageIdle /\ ListIdle /\ StoreIdle /\ SvcIdle /\ WaitIdle /\ SrvIdle
NextRuns == RunsNext
SpecRuns == InitRuns /\ [][NextRuns]_vars

(***************************************************************************)
(* Properties of the preparers (checked under Spec)                        *)
(***************************************************************************)
\* The value of field k of the automation after the last call's overrides are applied.
Eff(k) == IF k \in DOMAIN updates THEN updates[k] ELSE obj[k]

\* The wrapper field that stands for an action type.
FieldFor(t) ==
    CASE t = "NOTIFICATION" -> "notification_action_input"
      [] t = "GENERIC_WEBHOOK" -> "generic_webhook_action_input"
      [] t = "NO_OP" -> "no_op_action_input"

\* The wrapper that holds action a, in its input form, in its own field and None in the other two.
ConfigHolding(a) == [f \in ConfigFields |-> IF f = FieldFor(a.action_type) THEN [a EXCEPT !.form = "input"] ELSE Null]

SimpleKeys == {"name", "description", "enabled"}
ReturnedPayload == result.status = "ok" /\ result.payload # Null

\* C1: for an unsaved automation built from event E and action A of a known
\* action type, prepare_create_input returns a payload whose
\* triggering_event_type is E's, whose triggered_action_type is A's, and whose
\* triggered_action_config has exactly the field of A's type populated (with
\* A), the other two being None.
C1_CreateInputMatchesEventAndAction ==
    (op = "prepare_create_input" /\ ~IsSaved(obj) /\ Eff("action").action_type \in KnownActionTypes) =>
        /\ ReturnedPayload
        /\ result.payload.triggering_event_type = Eff("event").event_type
        /\ result.payload.triggered_action_type = Eff("action").action_type
        /\ \A f \in ConfigFields : (result.payload.triggered_action_config[f] # Null) <=> (f = FieldFor(Eff("action").action_type))
        /\ result.payload.triggered_action_config[FieldFor(Eff("action").action_type)].action_type = Eff("action").action_type

C1_Witness ==
    /\ op = "prepare_create_input" /\ ~IsSaved(obj) /\ updates = << >>
    /\ obj.action.action_type = "GENERIC_WEBHOOK" /\ obj.event.event_type = "RUN_METRIC"
    /\ ReturnedPayload
    /\ result.payload.triggered_action_config["generic_webhook_action_input"] # Null

\* C2: for a saved automation and any subset of overrides of name, description
\* and enabled, the payload prepare_update_input returns has each overridden
\* field equal to the override and every other field (id, scope_type, scope_id,
\* triggering_event_type, triggered_action_type, triggered_action_config, the
\* fields not overridden) equal to the value derived from the original; a
\* payload is returned whenever the action type is a known one.
C2_UpdateAppliesSimpleOverrides ==
    (op = "prepare_update_input" /\ DOMAIN updates \subseteq SimpleKeys) =>
        /\ (obj.action.action_type \in KnownActionTypes => ReturnedPayload)
        /\ ReturnedPayload =>
            /\ \A k \in SimpleKeys : result.payload[k] = (IF k \in DOMAIN updates THEN updates[k] ELSE obj[k])
            /\ result.payload.id = obj.id
            /\ result.payload.scope_type = obj.scope.scope_type
            /\ result.payload.scope_id = obj.scope.id
            /\ result.payload.triggering_event_type = obj.event.event_type
            /\ result.payload.triggered_action_type = obj.action.action_type
            /\ result.payload.triggered_action_config = ConfigHolding(obj.action)

C2_Witness ==
    /\ op = "prepare_update_input" /\ DOMAIN updates = SimpleKeys
    /\ ReturnedPayload
    /\ obj.name = "n1" /\ result.payload.name = "n2"
    /\ obj.description = None /\ result.payload.description = "d2"
    /\ obj.enabled /\ ~result.payload.enabled

\* C3: prepare_update_input never emits a wrapped filter: when the event's
\* filter after the overrides is a wrapped filter the payload's event_filter is
\* its inner filter expression, otherwise it is that filter itself.
C3_UpdateUnwrapsFilter ==
    (op = "prepare_update_input" /\ ReturnedPayload) =>
        /\ result.payload.event_filter.tag # "wrapped"
        /\ Eff("event").filter.tag = "wrapped" => result.payload.event_filter = Eff("event").filter.filter
        /\ Eff("event").filter.tag # "wrapped" => result.payload.event_filter = Eff("event").filter

C3_Witness ==
    /\ op = "prepare_update_input" /\ ReturnedPayload
    /\ "event" \notin DOMAIN updates
    /\ obj.event.filter = WrappedEventFilter(E2)
    /\ result.payload.event_filter = E2

\* C4 (as claimed): for a saved automation and any overrides, the payload of
\* prepare_update_input equals the payload of prepare_create_input for the same
\* automation and overrides on every shared field, event_filter included, and
\* carries the automation's id.
SharedFields == {"name", "description", "enabled", "scope_type", "scope_id", "triggering_event_type", "event_filter", "triggered_action_type", "triggered_action_config"}
C5_UnknownActionTypeIsConfigurationError ==
    (op \in {"prepare_create_input", "prepare_update_input"} /\ Eff("action").action_type \notin KnownActionTypes) =>
        /\ result.status = "error"
        /\ result.origin = "local"
        /\ result.payload = Null
        /\ result.error = "UnsupportedActionType"

\* C6: with an `action` override of another (known) action type,
\* prepare_update_input replaces the action wholesale: triggered_action_type
\* and the one populated field of triggered_action_config are the new action's,
\* the old action appears nowhere, and every field not overridden is the original's.
C6_ActionOverrideReplacesWholesale ==
    (/\ op = "prepare_update_input"
     /\ "action" \in DOMAIN updates
     /\ updates["action"].action_type # obj.action.action_type
     /\ updates["action"].action_type \in KnownActionTypes) =>
        /\ ReturnedPayload
        /\ result.payload.triggered_action_type = updates["action"].action_type
        /\ result.payload.triggered_action_config = ConfigHolding(updates["action"])
        /\ \A f \in ConfigFields : result.payload.triggered_action_config[f] # [obj.action EXCEPT !.form = "input"]
        /\ \A k \in SimpleKeys \ DOMAIN updates : result.payload[k] = obj[k]
        /\ result.payload.id = obj.id
        /\ "scope" \notin DOMAIN updates => (result.payload.scope_type = obj.scope.scope_type /\ result.payload.scope_id = obj.scope.id)
        /\ "event" \notin DOMAIN updates => result.payload.triggering_event_type = obj.event.event_type

C6_Witness ==
    /\ op = "prepare_update_input" /\ ReturnedPayload
    /\ "action" \in DOMAIN updates
    /\ obj.action.action_type = "GENERIC_WEBHOOK"
    /\ updates["action"].action_type = "NOTIFICATION"
    /\ result.payload.triggered_action_config["generic_webhook_action_input"] = Null

C8_ScopeCompatibilityLeftToBackend ==
    (/\ op \in {"prepare_update_input", "update_automation"}
     /\ "scope" \in DOMAIN updates
     /\ Eff("event").event_type = "RUN_METRIC"
     /\ Eff("action").action_type \in KnownActionTypes) =>
        /\ result.payload # Null
        /\ result.payload.scope_type = updates["scope"].scope_type
        /\ result.payload.scope_id = updates["scope"].id
        /\ op = "prepare_update_input" => result.status = "ok"
        /\ (op = "update_automation" /\ updates["scope"].scope_type = "ARTIFACT_COLLECTION") =>
            (result.status = "error" /\ result.origin = "remote" /\ result.error = "CommError")
        /\ (op = "update_automation" /\ updates["scope"].scope_type = "PROJECT") =>
            (result.status = "ok" /\ result.returned.scope.scope_type = "PROJECT" /\ result.returned.scope.id = updates["scope"].id /\ result.returned.scope.name = updates["scope"].name)

C8_Witness ==
    /\ op = "update_automation"
    /\ obj.event.event_type = "RUN_METRIC" /\ obj.scope = P1
    /\ "scope" \in DOMAIN updates /\ updates["scope"] = AC1
    /\ result.status = "error" /\ result.origin = "remote" /\ result.error = "CommError"

(***************************************************************************)
(* Properties of the listings (checked under SpecPaginator)                *)
(***************************************************************************)
\* C9: in both listing modes, `more` is True while no page has been fetched
\* and otherwise is the has_next_page flag of the page fetched last; so it is
\* False after a page with hasNextPage=false.
C9_MoreFollowsLastPage ==
    more = (IF received = << >> THEN TRUE ELSE received[Len(received)].hasNextPage)

C9_Witness ==
    /\ mode = "for_viewer"
    /\ Len(received) >= 2
    /\ received[1].hasNextPage /\ ~received[Len(received)].hasNextPage
    /\ ~more

\* C10: in both listing modes, `cursor` is None while no page has been fetched
\* and otherwise is the end_cursor of the page fetched last, never that of an
\* earlier page.
C10_CursorFollowsLastPage ==
    cursor = (IF received = << >> THEN None ELSE received[Len(received)].endCursor)

C10_Witness ==
    /\ mode = "by_entity"
    /\ Len(received) >= 2
    /\ received[1].endCursor = "c1" /\ received[Len(received)].endCursor = "c2"
    /\ cursor = "c2"

\* The number of triggers in the edges before edge i.
RECURSIVE TriggersBefore(_, _)
TriggersBefore(edges, i) == IF i <= 1 THEN 0 ELSE TriggersBefore(edges, i - 1) + Len(edges[i - 1].node.triggers)

\* C11: decoding a fetched page whose edges together hold N trigger records
\* gives exactly N Automation instances, the j-th trigger of the i-th edge
\* standing after all triggers of the edges before it (edge order, then trigger
\* order); a page without triggers gives the empty list.
C11_ConvertKeepsCountAndOrder ==
    converted.status = "ok" =>
        LET edges == converted.edges
            N == TriggersBefore(edges, Len(edges) + 1)
        IN  /\ Len(converted.objects) = N
            /\ \A i \in 1..Len(edges) : \A j \in 1..Len(edges[i].node.triggers) :
                /\ converted.objects[TriggersBefore(edges, i) + j].typename = "Automation"
                /\ converted.objects[TriggersBefore(edges, i) + j].id = edges[i].node.triggers[j]
            /\ N = 0 => converted.objects = << >>

C11_Witness ==
    /\ converted.status = "ok"
    /\ mode = "by_entity"
    /\ Len(converted.edges) = 2
    /\ Len(converted.objects) = 3
    /\ converted.objects[3].id = "t3"

\* C12 (as claimed): for every response that does not match the expected shape
\* _update_response fails with the one 'Unexpected response data' ValueError;
\* the raw lookup, type or validation exception never propagates.
C12_MalformedResponseRaisesValueError ==
    (last_shape \notin {"none", "ok"}) => fetch_error = "ValueError"

(***************************************************************************)
(* Properties of a complete listing (checked under SpecListing)            *)
(***************************************************************************)
\* The page requests among the requests made so far.
PageRequests == SelectSeq(requests, LAMBDA r : r.kind = "page")
IntrospectionRequests == SelectSeq(requests, LAMBDA r : r.kind = "introspection")

\* ceil(P / s), and one request where there is no project at all.
ExpectedPageRequests == IF total_projects = 0 THEN 1 ELSE (total_projects + per_page - 1) \div per_page

\* C13: listing all automations of an entity whose automations span P >= 1 projects with
\* page size s issues exactly ceil(P/s) page requests after the single introspection
\* request, each asking for the page after the previous one's end cursor; once a page
\* with hasNextPage = false has been fetched the count stays there, and the finished
\* iteration has yielded every automation. (An entity without any project costs one
\* page request.)
C13_ListingIssuesCeilPagesThenStops ==
    /\ Len(PageRequests) <= ExpectedPageRequests
    /\ Len(IntrospectionRequests) <= 1
    /\ \A i \in 1..Len(PageRequests) : PageRequests[i].after = CursorOf(IF (i - 1) * per_page < total_projects THEN (i - 1) * per_page ELSE total_projects)
    /\ (received # << >> /\ ~received[Len(received)].hasNextPage) => Len(PageRequests) = ExpectedPageRequests
    /\ list_pc = "done" =>
        /\ Len(PageRequests) = ExpectedPageRequests
        /\ Len(IntrospectionRequests) = 1
        /\ requests[1].kind = "introspection"
        /\ Len(objects) = total_projects * per_project
        /\ \A i \in 1..total_projects : \A j \in 1..per_project : objects[(i - 1) * per_project + j].id = TriggerOf(i, j)

C13_Witness == list_pc = "done" /\ mode = "by_entity" /\ total_projects = 5 /\ per_page = 2 /\ Len(PageRequests) = 3 /\ Len(requests) = 4

(***************************************************************************)
(* Properties of create, fetch and delete (checked under SpecStore)        *)
(***************************************************************************)
\* What a step that ends a create or a fetch has to satisfy (api_call' is the call the step made).
DuplicateNameStep ==
    /\ (api_call'.op \in {"create_automation", "save"} /\ api_call'.name \in DOMAIN store) =>
        (/\ store' = store
         /\ first_created' = first_created
         /\ (~api_call'.fetch_existing) => (api_call'.status = "error" /\ api_call'.error = "HTTPError" /\ api_call'.origin = "remote")
         /\ (api_call'.fetch_existing) =>
             (/\ api_call'.status = "ok"
              /\ api_call'.returned = first_created[api_call'.name].value
              /\ api_call'.returned.description = first_created[api_call'.name].description))
    /\ (api_call'.op = "automation" /\ api_call'.name \in DOMAIN first_created) =>
        (api_call'.status = "ok" /\ api_call'.returned = first_created[api_call'.name].value)

\* C14: a create under a name that is already stored leaves the stored automation as it
\* is; without fetch_existing it fails with the backend's conflict error, with
\* fetch_existing it returns the automation stored first (the first call's description,
\* not the second's); a later fetch by that name returns the value the first create returned.
C14_DuplicateNameKeepsOriginal ==
    [][DuplicateNameStep]_vars

C14_Witness ==
    /\ api_call.op = "create_automation"
    /\ api_call.fetch_existing
    /\ api_call.status = "ok"
    /\ api_call.description = "ignored description"
    /\ api_call.returned.description = None
    /\ store[api_call.name] = api_call.returned

AllIdle == \A t \in Threads : pc[t] = "idle"

\* C16: constructing the handle calls neither ensure_service nor api_init_request; when
\* the requests on it come one after the other, the first send_api_request or
\* send_api_request_async calls each of the two exactly once, and every later request
\* goes out on the same connection without another api_init_request.
C16_ConnectionIsLazyAndMadeOnce ==
    /\ sends_started = 0 => (ensure_calls = 0 /\ init_calls = 0 /\ service_connection = None)
    /\ serialized =>
        /\ ensure_calls <= 1 /\ init_calls <= 1
        /\ (sends_started >= 1 /\ AllIdle) => (ensure_calls = 1 /\ init_calls = 1 /\ service_connection = Connection)
        /\ sent # << >> => (ensure_calls = 1 /\ init_calls = 1)

C16_Witness ==
    /\ serialized
    /\ Len(sent) = 3
    /\ sent[1].kind = "async" /\ sent[2].kind = "sync" /\ sent[3].thread # sent[1].thread
    /\ ensure_calls = 1 /\ init_calls = 1

\* A request that went out under an id other than the one the handle ends up with.
StaleIdSent == AllIdle /\ \E i \in 1..Len(sent) : sent[i].id # api_id

\* C17: establishing the connection and assigning its id is not atomic: when two threads
\* use a fresh handle at once without a lock, api_init_request can be called more than
\* once (at most once per thread), and a request can go out under an id other than the
\* one finally assigned; with one request at a time neither happens.
C17_FirstUseIsNotAtomic ==
    /\ init_calls <= Cardinality(Threads)
    /\ (init_calls > 1 \/ StaleIdSent) => ~serialized

C17_Witness ==
    /\ ~serialized
    /\ init_calls = 2
    /\ StaleIdSent
    /\ api_id = BackendApiId(2)
    /\ Len(finalizers) = 2

\* C18 (as claimed): any two requests submitted through send_api_request_async on the
\* same service connection carry distinct identifiers.
C18_AsyncRequestIdsDistinct ==
    \A i, j \in 1..Len(sent) : (i # j /\ sent[i].kind = "async" /\ sent[j].kind = "async") => sent[i].id # sent[j].id

Deadline == start_time + wait_timeout * TicksPerSecond

AtExit(p, c) == spc[p] = "exit" /\ cmd[p].cmd = c

\* C21: connect exits with 0 exactly when the state file it read has an entry for the
\* name and that server's /ready and /health both answered 200; otherwise it exits
\* with 1; the JSON with the entry's base_port and fixture_port is printed in the
\* success case and only then.
C21_ConnectExitsZeroIffKnownAndHealthy ==
    \A p \in Procs : AtExit(p, "connect") =>
        LET known == cmd[p].name \in DOMAIN pending[p].before
            block == pending[p].block
        IN  /\ block.exit \in {0, 1}
            /\ block.exit = 0 <=> (known /\ pending[p].health = "both_200")
            /\ block.json # Null <=> block.exit = 0
            /\ block.exit = 0 => block.json = [base_port |-> pending[p].before[cmd[p].name].base_port, fixture_port |-> pending[p].before[cmd[p].name].fixture_port]
            /\ block.docker_run = FALSE /\ block.removals = << >>

C21_Witness == \E p \in Procs : AtExit(p, "connect") /\ pending[p].block.exit = 0 /\ pending[p].block.json = ContainerPorts /\ state_file["a"].managed

(***************************************************************************)
(* Properties of reinit (checked under SpecRuns)                           *)
(***************************************************************************)
\* What a step that ends an init(reinit="allow") or a finish has to satisfy.
ReinitAllowStep ==
    /\ (last_call'.op = "init" /\ last_call'.reinit = "allow") =>
        /\ last_call'.created /\ last_call'.run = Len(runs) + 1 /\ Len(runs') = Len(runs) + 1
        /\ wandb_run' = (IF wandb_run = NoRun THEN last_call'.run ELSE wandb_run)
    /\ last_call'.op = "finish" =>
        /\ runs'[last_call'.run].finished
        /\ wandb_run' = (IF wandb_run = last_call'.run THEN NoRun ELSE wandb_run)

\* C22: an init with reinit="allow" creates a run and makes it wandb.run only when
\* wandb.run is None at that init (and then always); finishing a run other than wandb.run
\* leaves wandb.run as it is, finishing the run that is wandb.run sets it to None, never
\* to another run that is still active.
C22_WandbRunSetOnlyWhenNone ==
    [][ReinitAllowStep]_vars

C22_Witness == last_call.op = "init" /\ last_call.reinit = "allow" /\ Len(runs) = 3 /\ wandb_run = 3 /\ runs[1].finished /\ ~runs[2].finished

\* What a step that ends an init with one of the other reinit values has to satisfy.
ReinitPreviousStep ==
    /\ (last_call'.op = "init" /\ last_call'.reinit \in {"True", "finish_previous"}) =>
        /\ \A i \in 1..Len(runs) : runs'[i].finished
        /\ last_call'.created /\ last_call'.run = Len(runs) + 1 /\ ~runs'[last_call'.run].finished
    /\ (last_call'.op = "init" /\ last_call'.reinit \in {"False", "return_previous"} /\ ActiveRuns(runs) # {}) =>
        /\ ~last_call'.created /\ runs' = runs
        /\ last_call'.run \in ActiveRuns(runs) /\ \A j \in ActiveRuns(runs) : j <= last_call'.run

\* C23: init with reinit=True or "finish_previous" finishes every run created before that
\* is still unfinished, then returns a new run; init with reinit=False or
\* "return_previous" creates no run while an unfinished run exists and returns the
\* unfinished run created last.
C23_FinishPreviousAndReturnPrevious ==
    [][ReinitPreviousStep]_vars

C23_Witness == last_call.op = "init" /\ last_call.reinit = "return_previous" /\ ~last_call.created /\ last_call.run = 2 /\ Len(runs) = 3 /\ runs[3].finished /\ ~runs[1].finished

InSection(p) == spc[p] \in {"read", "body", "write"}

\* C25: the state file is read, changed and rewritten only under the file lock, held from
\* before the read until after the write: whatever the interleaving of start, stop,
\* connect and print-debug, at most one command is in the read-modify-write section, and
\* what a command read is still what the file holds when it writes, so that no entry
\* written by another command is lost.
C25_StateFileSectionIsExclusive ==
    /\ \A p \in Procs : (InSection(p) \/ spc[p] = "exit") => lock = p
    /\ \A p, q \in Procs : (InSection(p) /\ InSection(q)) => p = q
    /\ \A p \in Procs : spc[p] \in {"body", "write"} => pending[p].before = state_file

C25_Witness ==
    \E p, q \in Procs :
        /\ spc[p] = "write" /\ cmd[p] = Command("start", "b", << >>)
        /\ spc[q] = "lock"
        /\ DOMAIN state_file = {"a"}
        /\ DOMAIN pending[p].block.servers = {"a", "b"}

(***************************************************************************)
(* Request ids of a ServiceApi handle (checked under SpecServiceApi)       *)
(***************************************************************************)
\* C26 (as claimed): in any sequence of calls on one handle, one after the other, those
\* in which api_init_request raised included, every request handed to the connection
\* carries an id that a successful api_init_request returned, never the placeholder
\* uuid of the constructor.
C26_SentIdsComeFromApiInit ==
    serialized => \A i \in 1..Len(sent) :
        /\ sent[i].id # Uuid
        /\ \E j \in 1..Len(init_ids) : sent[i].id = init_ids[j]

(***************************************************************************)
(* start, stop and the state file (checked under SpecServer)               *)
(***************************************************************************)
\* C27 (as claimed): once a start command has ended, the container it started with
\* `docker run`, if still there, is recorded under its name with managed = true in the
\* state file, whether the server became healthy, the health wait timed out or the
\* port lookup failed.
C27_StartedContainerIsRecorded ==
    \A p \in Procs : (AtExit(p, "start") /\ pending[p].block.started /\ cmd[p].name \in containers) =>
        (cmd[p].name \in DOMAIN state_file /\ state_file[cmd[p].name].managed)

\* The names a stop command works on: those given, or else every recorded server.
StopTargets(p) == IF cmd[p].names = << >> THEN Keys(pending[p].before) ELSE cmd[p].names
Names(ns) == {ns[i] : i \in 1..Len(ns)}

C29_OnlyManagedContainersRemoved ==
    \A p \in Procs :
        LET block == pending[p].block
            before == pending[p].before
        IN  /\ cmd[p].cmd # "stop" => block.removals = << >>
            /\ \A i \in 1..Len(block.removals) :
                    /\ block.removals[i].name \in DOMAIN before
                    /\ before[block.removals[i].name].managed

C29_Witness ==
    \E p \in Procs :
        /\ AtExit(p, "stop") /\ cmd[p].names = << >>
        /\ DOMAIN pending[p].before = {"a", "b"}
        /\ pending[p].before["a"].managed /\ ~pending[p].before["b"].managed
        /\ pending[p].block.removals = <<[name |-> "a", ok |-> TRUE]>>
        /\ DOMAIN state_file = {}

\* C30: start without --hostname for a recorded name whose health endpoints answer 200
\* exits with 0, runs no container and leaves the state file as it was; start --hostname
\* for a recorded name exits with 1 and leaves the state file as it was.
C30_StartOfRecordedNameChangesNothing ==
    \A p \in Procs :
        LET block == pending[p].block
            before == pending[p].before
        IN  /\ (AtExit(p, "start") /\ cmd[p].name \in DOMAIN before /\ pending[p].prev_health = "both_200") =>
                (block.exit = 0 /\ ~block.docker_run /\ ~block.started /\ state_file = before)
            /\ (AtExit(p, "start_external") /\ cmd[p].name \in DOMAIN before) =>
                (block.exit = 1 /\ ~block.docker_run /\ state_file = before)

C30_Witness ==
    \E p \in Procs :
        /\ AtExit(p, "start") /\ cmd[p].name = "a"
        /\ pending[p].prev_health = "both_200"
        /\ DOMAIN pending[p].before = {"a", "b"}
        /\ ~pending[p].before["b"].managed
        /\ pending[p].block.exit = 0
        /\ state_file = pending[p].before

====
